---- MODULE Spec2Model ----
(***************************************************************************)
(* crossbar/adapter/rest/common.py: _CommonResource, the validation gate   *)
(* of the REST bridge.  render() admits OPTIONS/POST/PUT, _render_request  *)
(* walks the checks in source order (content type, charset, Content-Length,*)
(* body limit, the five signature fields, key and HMAC signature, client   *)
(* IP, TLS, UTF-8, JSON) and hands the decoded event to _process.          *)
(*                                                                         *)
(* Byte strings (header values, query arguments, bodies) are sequences of  *)
(* byte values 0..255; None is the one-element sequence <<-1>>.            *)
(***************************************************************************)
EXTENDS Integers, Sequences, FiniteSets, TLC

\* Python's None (and "no such header", "no such query argument").
None == <<-1>>

\* ------------------------------------------------------------------------
\* bytes helpers (the Python built-ins the source calls)
\* ------------------------------------------------------------------------

\* bytes.strip() / str.strip(): the ASCII whitespace characters
IsSpace(b) == b \in {9, 10, 11, 12, 13, 32}

RECURSIVE LStrip(_)
LStrip(s) == IF Len(s) > 0 /\ IsSpace(s[1]) THEN LStrip(Tail(s)) ELSE s

RECURSIVE RStrip(_)
RStrip(s) ==
    IF Len(s) > 0 /\ IsSpace(s[Len(s)]) THEN RStrip(SubSeq(s, 1, Len(s) - 1)) ELSE s

Strip(s) == RStrip(LStrip(s))

\* bytes.lower(): ASCII upper-case letters to lower case
Lower(s) == [i \in 1..Len(s) |-> IF s[i] \in 65..90 THEN s[i] + 32 ELSE s[i]]

\* b in s
Contains(s, b) == \E i \in 1..Len(s) : s[i] = b

\* index of the first b in s, 0 when there is none
RECURSIVE IndexFrom(_, _, _)
IndexFrom(s, b, i) ==
    IF i > Len(s) THEN 0 ELSE IF s[i] = b THEN i ELSE IndexFrom(s, b, i + 1)

\* s.split(sep) for a one-byte separator: the list of pieces
RECURSIVE Split(_, _)
Split(s, sep) ==
    LET i == IndexFrom(s, sep, 1)
    IN  IF i = 0 THEN <<s>>
        ELSE <<SubSeq(s, 1, i - 1)>> \o Split(SubSeq(s, i + 1, Len(s)), sep)

IsDigit(b) == b \in 48..57

AllDigits(s) == \A i \in 1..Len(s) : IsDigit(s[i])

\* the value of a run of decimal digits
RECURSIVE DigitsValue(_)
DigitsValue(s) ==
    IF Len(s) = 0 THEN 0
    ELSE 10 * DigitsValue(SubSeq(s, 1, Len(s) - 1)) + (s[Len(s)] - 48)

\* int(x) of a byte string: surrounding whitespace, an optional sign, decimal
\* digits; anything else raises ValueError (ok = FALSE)
ParseInt(x) ==
    LET t == Strip(x)
        signed == Len(t) > 0 /\ t[1] \in {43, 45}
        digits == IF signed THEN Tail(t) ELSE t
    IN  IF Len(digits) > 0 /\ AllDigits(digits)
        THEN [ok |-> TRUE,
              value |-> IF signed /\ t[1] = 45 THEN 0 - DigitsValue(digits)
                        ELSE DigitsValue(digits)]
        ELSE [ok |-> FALSE, value |-> 0]

\* str(n).encode() for n >= 0
RECURSIVE Itoa(_)
Itoa(n) == IF n < 10 THEN <<48 + n>> ELSE Itoa(n \div 10) \o <<48 + (n % 10)>>


\* ------------------------------------------------------------------------
\* Content-Type, charset, Content-Length, body limit (lines 189-271)
\* ------------------------------------------------------------------------

\* b'application/json'
B_application_json == <<97,112,112,108,105,99,97,116,105,111,110,47,106,115,111,110>>
\* 'charset'
B_charset == <<99,104,97,114,115,101,116>>
\* 'utf-8'
B_utf_8 == <<117,116,102,45,56>>
\* 'utf8'
B_utf8 == <<117,116,102,56>>

ALLOWED_CONTENT_TYPES == {B_application_json}

\* [x.strip().lower() for x in content_type_header[0].split(b";")], or []
ContentTypeElements(content_type_header) ==
    IF Len(content_type_header) > 0
    THEN LET pieces == Split(content_type_header[1], 59)
         IN  [i \in 1..Len(pieces) |-> Lower(Strip(pieces[i]))]
    ELSE <<>>

\* the first element, when there is one, is not an allowed content type
BadContentType(content_type_elements) ==
    /\ Len(content_type_elements) > 0
    /\ content_type_elements[1] \notin ALLOWED_CONTENT_TYPES

\* key in encoding_parts (a list of <<key, value>> in insertion order)
HasPart(encoding_parts, key) ==
    \E i \in 1..Len(encoding_parts) : encoding_parts[i][1] = key

\* encoding_parts.get(key, default)
GetPart(encoding_parts, key, default) ==
    IF HasPart(encoding_parts, key)
    THEN encoding_parts[CHOOSE i \in 1..Len(encoding_parts) :
                            encoding_parts[i][1] = key][2]
    ELSE default

\* the loop over content_type_elements: an item without "=" is skipped, the
\* two asserts (exactly one "=", no duplicate key) raise into the bare except
RECURSIVE ParseEncodingParts(_, _, _)
ParseEncodingParts(elements, i, encoding_parts) ==
    IF i > Len(elements) THEN [ok |-> TRUE, parts |-> encoding_parts]
    ELSE LET item == elements[i]
         IN  IF ~Contains(item, 61)
             THEN ParseEncodingParts(elements, i + 1, encoding_parts)
             ELSE LET kv == Split(item, 61)
                  IN  IF Len(kv) # 2
                      THEN [ok |-> FALSE, parts |-> encoding_parts]
                      ELSE LET key == Lower(Strip(kv[1]))
                           IN  IF HasPart(encoding_parts, key)
                               THEN [ok |-> FALSE, parts |-> encoding_parts]
                               ELSE ParseEncodingParts(elements, i + 1,
                                        Append(encoding_parts,
                                               <<key, Lower(Strip(kv[2]))>>))

EncodingParts(content_type_elements) ==
    IF Len(content_type_elements) > 1
    THEN ParseEncodingParts(content_type_elements, 1, <<>>)
    ELSE [ok |-> TRUE, parts |-> <<>>]

CharsetEncoding(encoding_parts) == GetPart(encoding_parts, B_charset, B_utf_8)

BadCharset(charset_encoding) == charset_encoding \notin {B_utf_8, B_utf8}

\* content_length: int() of the only header, the body length without one;
\* kind "multiple" for more than one header, "error" when int() raises
ContentLength(content_length_header, body_length) ==
    IF Len(content_length_header) = 1
    THEN LET n == ParseInt(content_length_header[1])
         IN  IF n.ok THEN [kind |-> "value", value |-> n.value]
             ELSE [kind |-> "error", value |-> 0]
    ELSE IF Len(content_length_header) > 1
    THEN [kind |-> "multiple", value |-> 0]
    ELSE [kind |-> "value", value |-> body_length]

LengthMismatch(body_length, content_length) == body_length # content_length

\* a variant that also refuses a body of exactly the limit
BodyLimitReached(post_body_limit, content_length) ==
    post_body_limit # 0 /\ content_length >= post_body_limit

\* self._post_body_limit and content_length > self._post_body_limit
BodyLimitExceeded(post_body_limit, content_length) ==
    post_body_limit # 0 /\ content_length > post_body_limit

\* ------------------------------------------------------------------------
\* HMAC-SHA256 and base64 (lines 362-369)
\* ------------------------------------------------------------------------

\* hmac.new(secret, None, hashlib.sha256)
HmacNew(secret) == [key |-> secret, msg |-> <<>>]

\* hm.update(data)
HmacUpdate(hm, data) == [hm EXCEPT !.msg = @ \o data]

\* hm.digest(): an ideal keyed digest, a collision-free function of the key
\* and of the bytes fed so far (and of nothing else)
HmacDigest(hm) == <<Len(hm.key)>> \o hm.key \o hm.msg

\* the URL-safe base64 alphabet: A-Z a-z 0-9 - _
B64Char(n) ==
    IF n < 26 THEN 65 + n
    ELSE IF n < 52 THEN 71 + n
    ELSE IF n < 62 THEN n - 4
    ELSE IF n = 62 THEN 45 ELSE 95

\* base64.urlsafe_b64encode(s), padded with "="
RECURSIVE UrlsafeB64Encode(_)
UrlsafeB64Encode(s) ==
    IF Len(s) = 0 THEN <<>>
    ELSE IF Len(s) = 1
    THEN <<B64Char(s[1] \div 4), B64Char((s[1] % 4) * 16), 61, 61>>
    ELSE IF Len(s) = 2
    THEN <<B64Char(s[1] \div 4), B64Char((s[1] % 4) * 16 + s[2] \div 16),
           B64Char((s[2] % 16) * 4), 61>>
    ELSE <<B64Char(s[1] \div 4), B64Char((s[1] % 4) * 16 + s[2] \div 16),
           B64Char((s[2] % 16) * 4 + s[3] \div 64), B64Char(s[3] % 64)>>
         \o UrlsafeB64Encode(SubSeq(s, 4, Len(s)))

\* the five updates and the encoding of the digest
SignatureRecomputed(secret, key_str, timestamp_str, seq_str, nonce_str, body) ==
    UrlsafeB64Encode(HmacDigest(
        HmacUpdate(HmacUpdate(HmacUpdate(HmacUpdate(HmacUpdate(
            HmacNew(secret), key_str), timestamp_str), seq_str), nonce_str), body)))

\* ------------------------------------------------------------------------
\* timestamp (lines 289-302): strptime, utcnow, timedelta
\* ------------------------------------------------------------------------

\* "%Y-%m-%dT%H:%M:%S.%fZ": a number of lo..hi digits, or a literal matched
\* without regard to case (lo, hi: its two cases)
StrptimeFormat ==
    << [kind |-> "num", lo |-> 4, hi |-> 4], [kind |-> "lit", lo |-> 45, hi |-> 45],
       [kind |-> "num", lo |-> 1, hi |-> 2], [kind |-> "lit", lo |-> 45, hi |-> 45],
       [kind |-> "num", lo |-> 1, hi |-> 2], [kind |-> "lit", lo |-> 116, hi |-> 84],
       [kind |-> "num", lo |-> 1, hi |-> 2], [kind |-> "lit", lo |-> 58, hi |-> 58],
       [kind |-> "num", lo |-> 1, hi |-> 2], [kind |-> "lit", lo |-> 58, hi |-> 58],
       [kind |-> "num", lo |-> 1, hi |-> 2], [kind |-> "lit", lo |-> 46, hi |-> 46],
       [kind |-> "num", lo |-> 1, hi |-> 6], [kind |-> "lit", lo |-> 122, hi |-> 90] >>

\* the length of the run of digits of s that starts at position i
RECURSIVE DigitRun(_, _)
DigitRun(s, i) == IF i > Len(s) \/ ~IsDigit(s[i]) THEN 0 ELSE 1 + DigitRun(s, i + 1)

\* match s from position i against the format from item k on; fields collects
\* the digit runs.  The whole string must match.
RECURSIVE StrptimeMatch(_, _, _, _)
StrptimeMatch(s, i, k, fields) ==
    IF k > Len(StrptimeFormat)
    THEN [ok |-> i = Len(s) + 1, fields |-> fields]
    ELSE LET item == StrptimeFormat[k]
         IN  IF item.kind = "lit"
             THEN IF i <= Len(s) /\ s[i] \in {item.lo, item.hi}
                  THEN StrptimeMatch(s, i + 1, k + 1, fields)
                  ELSE [ok |-> FALSE, fields |-> fields]
             ELSE LET n == DigitRun(s, i)
                  IN  IF n >= item.lo /\ n <= item.hi
                      THEN StrptimeMatch(s, i + n, k + 1,
                                         Append(fields, SubSeq(s, i, i + n - 1)))
                      ELSE [ok |-> FALSE, fields |-> fields]

IsLeap(year) == (year % 4 = 0 /\ year % 100 # 0) \/ year % 400 = 0

DaysInMonth(year, month) ==
    IF month = 2 THEN (IF IsLeap(year) THEN 29 ELSE 28)
    ELSE IF month \in {4, 6, 9, 11} THEN 30 ELSE 31

\* %f: one to six digits, read as a fraction of a second
RECURSIVE PadMicro(_)
PadMicro(s) == IF Len(s) >= 6 THEN s ELSE PadMicro(s \o <<48>>)

\* datetime.datetime.strptime(timestamp_str, "%Y-%m-%dT%H:%M:%S.%fZ");
\* ok = FALSE is ValueError
Strptime(timestamp_str) ==
    LET m == StrptimeMatch(timestamp_str, 1, 1, <<>>)
    IN  IF ~m.ok THEN [ok |-> FALSE]
        ELSE LET year == DigitsValue(m.fields[1])
                 month == DigitsValue(m.fields[2])
                 day == DigitsValue(m.fields[3])
                 hour == DigitsValue(m.fields[4])
                 minute == DigitsValue(m.fields[5])
                 second == DigitsValue(m.fields[6])
             IN  IF /\ year >= 1
                    /\ month \in 1..12
                    /\ day >= 1 /\ day <= DaysInMonth(year, month)
                    /\ hour <= 23 /\ minute <= 59 /\ second <= 59
                 THEN [ok |-> TRUE, year |-> year, month |-> month, day |-> day,
                       hour |-> hour, minute |-> minute, second |-> second,
                       microsecond |-> DigitsValue(PadMicro(m.fields[7]))]
                 ELSE [ok |-> FALSE]

RECURSIVE DaysBeforeMonth(_, _)
DaysBeforeMonth(year, month) ==
    IF month = 1 THEN 0
    ELSE DaysBeforeMonth(year, month - 1) + DaysInMonth(year, month - 1)

\* date.toordinal()
ToOrdinal(dt) ==
    LET y == dt.year - 1
    IN  y * 365 + y \div 4 - y \div 100 + y \div 400
        + DaysBeforeMonth(dt.year, dt.month) + dt.day

\* abs(a - b): whole seconds and microseconds of the timedelta
AbsDelta(a, b) ==
    LET secs == (ToOrdinal(a) - ToOrdinal(b)) * 86400
                + (a.hour - b.hour) * 3600 + (a.minute - b.minute) * 60
                + (a.second - b.second)
        us == a.microsecond - b.microsecond
        \* normalised: 0 <= microseconds < 10^6
        nsecs == IF us < 0 THEN secs - 1 ELSE secs
        nus == IF us < 0 THEN us + 1000000 ELSE us
    IN  IF nsecs >= 0 THEN [seconds |-> nsecs, microseconds |-> nus]
        ELSE IF nus = 0 THEN [seconds |-> 0 - nsecs, microseconds |-> 0]
        ELSE [seconds |-> 0 - nsecs - 1, microseconds |-> 1000000 - nus]

\* a variant that also refuses a difference of exactly the limit
TimestampAtLimitExpired(timestamp_delta_limit, delta) ==
    timestamp_delta_limit # 0 /\ delta.seconds >= timestamp_delta_limit

\* self._timestamp_delta_limit and delta > self._timestamp_delta_limit
\* (delta: total_seconds() of the absolute difference)
TimestampExpired(timestamp_delta_limit, delta) ==
    /\ timestamp_delta_limit # 0
    /\ \/ delta.seconds > timestamp_delta_limit
       \/ delta.seconds = timestamp_delta_limit /\ delta.microseconds > 0

\* ------------------------------------------------------------------------
\* client IP (lines 379-392): netaddr's IPAddress in IPNetwork
\* ------------------------------------------------------------------------

RECURSIVE Pow2(_)
Pow2(n) == IF n = 0 THEN 1 ELSE 2 * Pow2(n - 1)

\* how many of octet i's bits a prefix of the given length covers
PrefixBits(prefixlen, i) ==
    LET k == prefixlen - 8 * (i - 1)
    IN  IF k < 0 THEN 0 ELSE IF k > 8 THEN 8 ELSE k

\* self._require_ip is None or a list of IPNetwork, each network the five
\* numbers <<a, b, c, d, prefixlen>>, the list holding them end to end
NetworkCount(require_ip) == Len(require_ip) \div 5

Network(require_ip, j) == SubSeq(require_ip, 5 * j - 4, 5 * j)

\* ip in net: the address agrees with the network on its prefix bits
InNetwork(ip, net) ==
    \A i \in 1..4 :
        ip[i] \div Pow2(8 - PrefixBits(net[5], i))
            = net[i] \div Pow2(8 - PrefixBits(net[5], i))

\* the for loop: some listed network holds the address
IpAllowed(ip, require_ip) ==
    \E j \in 1..NetworkCount(require_ip) : InNetwork(ip, Network(require_ip, j))

\* a variant that takes an empty list for a list that allows nothing
IpDeniedByEmptyList(require_ip, ip) ==
    require_ip # None /\ ~IpAllowed(ip, require_ip)

\* if self._require_ip: ... if not allowed (None and [] are both falsy)
IpDenied(require_ip, ip) ==
    /\ require_ip # None
    /\ Len(require_ip) > 0
    /\ ~IpAllowed(ip, require_ip)

\* if self._require_tls: if not is_secure
TlsDenied(require_tls, is_secure) == require_tls /\ ~is_secure

\* ------------------------------------------------------------------------
\* UTF-8 (lines 406-417): autobahn's Utf8Validator and bytes.decode
\* ------------------------------------------------------------------------

\* one step of the validator's automaton: the state after byte b.  "ACCEPT"
\* is a code point boundary, "REJECT" absorbs, the others name what is
\* still owed: one, two or three continuation bytes, or a first
\* continuation byte of a restricted range
Utf8Step(state, b) ==
    CASE state = "ACCEPT" ->
            IF b <= 127 THEN "ACCEPT"
            ELSE IF b \in 194..223 THEN "C1"
            ELSE IF b = 224 THEN "E0"
            ELSE IF b \in 225..236 \/ b \in 238..239 THEN "C2"
            ELSE IF b = 237 THEN "ED"
            ELSE IF b = 240 THEN "F0"
            ELSE IF b \in 241..243 THEN "C3"
            ELSE IF b = 244 THEN "F4"
            ELSE "REJECT"
      [] state = "C1" -> IF b \in 128..191 THEN "ACCEPT" ELSE "REJECT"
      [] state = "C2" -> IF b \in 128..191 THEN "C1" ELSE "REJECT"
      [] state = "C3" -> IF b \in 128..191 THEN "C2" ELSE "REJECT"
      [] state = "E0" -> IF b \in 160..191 THEN "C1" ELSE "REJECT"
      [] state = "ED" -> IF b \in 128..159 THEN "C1" ELSE "REJECT"
      [] state = "F0" -> IF b \in 144..191 THEN "C2" ELSE "REJECT"
      [] state = "F4" -> IF b \in 128..143 THEN "C2" ELSE "REJECT"
      [] OTHER -> "REJECT"

\* the automaton run over ba from the given state; it stops at REJECT
RECURSIVE Utf8Run(_, _)
Utf8Run(state, ba) ==
    IF Len(ba) = 0 \/ state = "REJECT" THEN state
    ELSE Utf8Run(Utf8Step(state, ba[1]), Tail(ba))

\* _validator = Utf8Validator(): a new validator is in its start state
Utf8Validator == "ACCEPT"

ValidationResult0(state) == state # "REJECT"

\* body.decode('utf8') succeeds: every byte accepted and the last code
\* point complete (UnicodeDecodeError otherwise)
Utf8Decodable(body) == Utf8Run("ACCEPT", body) = "ACCEPT"

\* the code points of a decodable byte string
RECURSIVE Utf8Decode(_)
Utf8Decode(s) ==
    IF Len(s) = 0 THEN <<>>
    ELSE IF s[1] <= 127 THEN <<s[1]>> \o Utf8Decode(Tail(s))
    ELSE IF s[1] <= 223
    THEN <<(s[1] - 192) * 64 + (s[2] - 128)>> \o Utf8Decode(SubSeq(s, 3, Len(s)))
    ELSE IF s[1] <= 239
    THEN <<(s[1] - 224) * 4096 + (s[2] - 128) * 64 + (s[3] - 128)>>
         \o Utf8Decode(SubSeq(s, 4, Len(s)))
    ELSE <<(s[1] - 240) * 262144 + (s[2] - 128) * 4096 + (s[3] - 128) * 64
           + (s[4] - 128)>> \o Utf8Decode(SubSeq(s, 5, Len(s)))

\* ------------------------------------------------------------------------
\* JSON (lines 419-432): json.loads on the texts the model sends: objects,
\* arrays, strings without escapes, integers, true, false, null
\* ------------------------------------------------------------------------

\* position of the first non-whitespace character at or after i
RECURSIVE SkipWs(_, _)
SkipWs(t, i) ==
    IF i <= Len(t) /\ t[i] \in {32, 9, 10, 13} THEN SkipWs(t, i + 1) ELSE i

\* position of the closing quote of the string whose text starts at i;
\* 0 for an unterminated string, a control character or an escape
RECURSIVE StringEnd(_, _)
StringEnd(t, i) ==
    IF i > Len(t) THEN 0
    ELSE IF t[i] = 34 THEN i
    ELSE IF t[i] < 32 \/ t[i] = 92 THEN 0
    ELSE StringEnd(t, i + 1)

JsonFail == [ok |-> FALSE, val |-> [t |-> "none", v |-> <<>>], pos |-> 0]

\* t starts with the word w at position i
StartsWith(t, i, w) == i + Len(w) - 1 <= Len(t) /\ SubSeq(t, i, i + Len(w) - 1) = w

\* d[key] = value on a dict kept as <<key, value>> pairs in insertion order
DictSet(d, key, value) ==
    IF \E j \in 1..Len(d) : d[j][1] = key
    THEN [j \in 1..Len(d) |-> IF d[j][1] = key THEN <<key, value>> ELSE d[j]]
    ELSE Append(d, <<key, value>>)

RECURSIVE JsonValue(_, _), JsonMembers(_, _, _), JsonElements(_, _, _)

\* the value that starts at position i (i is not whitespace)
JsonValue(t, i) ==
    IF i > Len(t) THEN JsonFail
    ELSE IF t[i] = 123
    THEN LET j == SkipWs(t, i + 1)
         IN  IF j <= Len(t) /\ t[j] = 125
             THEN [ok |-> TRUE, val |-> [t |-> "dict", v |-> <<>>], pos |-> j + 1]
             ELSE JsonMembers(t, j, <<>>)
    ELSE IF t[i] = 91
    THEN LET j == SkipWs(t, i + 1)
         IN  IF j <= Len(t) /\ t[j] = 93
             THEN [ok |-> TRUE, val |-> [t |-> "list", v |-> <<>>], pos |-> j + 1]
             ELSE JsonElements(t, j, <<>>)
    ELSE IF t[i] = 34
    THEN LET e == StringEnd(t, i + 1)
         IN  IF e = 0 THEN JsonFail
             ELSE [ok |-> TRUE, val |-> [t |-> "str", v |-> SubSeq(t, i + 1, e - 1)],
                   pos |-> e + 1]
    ELSE IF StartsWith(t, i, <<116, 114, 117, 101>>)
    THEN [ok |-> TRUE, val |-> [t |-> "true", v |-> <<>>], pos |-> i + 4]
    ELSE IF StartsWith(t, i, <<102, 97, 108, 115, 101>>)
    THEN [ok |-> TRUE, val |-> [t |-> "false", v |-> <<>>], pos |-> i + 5]
    ELSE IF StartsWith(t, i, <<110, 117, 108, 108>>)
    THEN [ok |-> TRUE, val |-> [t |-> "null", v |-> <<>>], pos |-> i + 4]
    ELSE LET neg == t[i] = 45
             d == IF neg THEN i + 1 ELSE i
             n == IF d <= Len(t) /\ t[d] = 48 THEN 1 ELSE DigitRun(t, d)
         IN  IF n = 0 THEN JsonFail
             ELSE [ok |-> TRUE,
                   val |-> [t |-> "int",
                            v |-> <<IF neg THEN 0 - DigitsValue(SubSeq(t, d, d + n - 1))
                                    ELSE DigitsValue(SubSeq(t, d, d + n - 1))>>],
                   pos |-> d + n]

\* the members of an object from position i (a key's opening quote) on
JsonMembers(t, i, acc) ==
    IF i > Len(t) \/ t[i] # 34 THEN JsonFail
    ELSE LET e == StringEnd(t, i + 1)
         IN  IF e = 0 THEN JsonFail
             ELSE LET c == SkipWs(t, e + 1)
                  IN  IF c > Len(t) \/ t[c] # 58 THEN JsonFail
                      ELSE LET r == JsonValue(t, SkipWs(t, c + 1))
                           IN  IF ~r.ok THEN JsonFail
                               ELSE LET d == DictSet(acc, SubSeq(t, i + 1, e - 1), r.val)
                                        n == SkipWs(t, r.pos)
                                    IN  IF n > Len(t) THEN JsonFail
                                        ELSE IF t[n] = 125
                                        THEN [ok |-> TRUE,
                                              val |-> [t |-> "dict", v |-> d],
                                              pos |-> n + 1]
                                        ELSE IF t[n] = 44
                                        THEN JsonMembers(t, SkipWs(t, n + 1), d)
                                        ELSE JsonFail

\* the elements of an array from position i on
JsonElements(t, i, acc) ==
    LET r == JsonValue(t, i)
    IN  IF ~r.ok THEN JsonFail
        ELSE LET n == SkipWs(t, r.pos)
             IN  IF n > Len(t) THEN JsonFail
                 ELSE IF t[n] = 93
                 THEN [ok |-> TRUE, val |-> [t |-> "list", v |-> Append(acc, r.val)],
                       pos |-> n + 1]
                 ELSE IF t[n] = 44
                 THEN JsonElements(t, SkipWs(t, n + 1), Append(acc, r.val))
                 ELSE JsonFail

\* json.loads(event): one value between optional whitespace and nothing
\* after it; ok = FALSE is the ValueError
JsonLoads(text) ==
    LET r == JsonValue(text, SkipWs(text, 1))
    IN  IF r.ok /\ SkipWs(text, r.pos) = Len(text) + 1
        THEN [ok |-> TRUE, val |-> r.val]
        ELSE [ok |-> FALSE, val |-> JsonFail.val]

\* a variant that lets a JSON array through as well
IsDictOrList(event) == event.t \in {"dict", "list"}

\* isinstance(event, dict)
IsDict(event) == event.t = "dict"

\* ------------------------------------------------------------------------
\* The configurations and requests explored: a well-formed signed request
\* to a fully configured resource, and everything that differs from that
\* pair in at most MaxFaults places
\* ------------------------------------------------------------------------

\* how many places of (options, request) may differ from the baseline
MaxFaults == 2

\* how far the clock may advance, in steps of five minutes
MaxTicks == 1

\* how many requests may wait for their Deferred while another is handled
MaxInFlight == 1

\* 'k1', 'k2': the configured key and another one
Key_k1 == <<107,49>>
Key_k2 == <<107,50>>
\* '{0}': another one, with braces
Key_braces == <<123,48,125>>
\* 's': the configured secret; 't': a secret the resource does not have
Secret_s == <<115>>
Secret_t == <<116>>

\* '{"a":12}'
Body_obj == <<123,34,97,34,58,49,50,125>>
\* '{}'
Body_empty_obj == <<123,125>>
\* '[1]'
Body_array == <<91,49,93>>
\* '12'
Body_scalar == <<49,50>>
\* '{"a":1'
Body_notjson == <<123,34,97,34,58,49>>
\* '{"a":123}': one byte longer than Body_obj
Body_big == <<123,34,97,34,58,49,50,51,125>>
\* b'{"\xff":1}': 0xff is never valid in UTF-8
Body_badutf8 == <<123,34,255,34,58,49,125>>
\* b'{"a":"\xc3': ends inside a two-byte sequence
Body_trunc == <<123,34,97,34,58,34,195>>
\* b'{"\xc3\xa9":1}': a valid two-byte sequence
Body_utf8 == <<123,34,195,169,34,58,49,125>>

\* '2011-10-14T17:00:00.000000Z': the clock's first instant
TS_now == <<50,48,49,49,45,49,48,45,49,52,84,49,55,58,48,48,58,48,48,46,48,48,48,48,48,48,90>>
\* '2011-10-14T16:55:00.000Z': 300 s before it
TS_past_at == <<50,48,49,49,45,49,48,45,49,52,84,49,54,58,53,53,58,48,48,46,48,48,48,90>>
\* '2011-10-14T16:54:59.999999Z': 300.000001 s before it
TS_past_over == <<50,48,49,49,45,49,48,45,49,52,84,49,54,58,53,52,58,53,57,46,57,57,57,57,57,57,90>>
\* '2011-10-14T17:05:00.000001Z': 300.000001 s after it
TS_future_over == <<50,48,49,49,45,49,48,45,49,52,84,49,55,58,48,53,58,48,48,46,48,48,48,48,48,49,90>>
\* '2011-10-14t17:05:00.0z': 300 s after it
TS_future_at == <<50,48,49,49,45,49,48,45,49,52,116,49,55,58,48,53,58,48,48,46,48,122>>
\* '2011-10-14T17:00:00Z': no fraction of a second
TS_bad == <<50,48,49,49,45,49,48,45,49,52,84,49,55,58,48,48,58,48,48,90>>

\* '{now}': no timestamp, with braces
TS_braces == <<123,110,111,119,125>>

\* Content-Type header values
\* 'application/json'
CT_json == <<97,112,112,108,105,99,97,116,105,111,110,47,106,115,111,110>>
\* 'Application/JSON; charset=UTF-8'
CT_json_utf8 == <<65,112,112,108,105,99,97,116,105,111,110,47,74,83,79,78,59,32,99,104,97,114,115,101,116,61,85,84,70,45,56>>
\* 'text/plain'
CT_text == <<116,101,120,116,47,112,108,97,105,110>>
\* 'application/json;charset=latin-1'
CT_latin1 == <<97,112,112,108,105,99,97,116,105,111,110,47,106,115,111,110,59,99,104,97,114,115,101,116,61,108,97,116,105,110,45,49>>
\* 'application/json;charset=utf-8;charset=utf8'
CT_dup == <<97,112,112,108,105,99,97,116,105,111,110,47,106,115,111,110,59,99,104,97,114,115,101,116,61,117,116,102,45,56,59,99,104,97,114,115,101,116,61,117,116,102,56>>
\* 'application/json; foo; charset=utf8'
CT_token == <<97,112,112,108,105,99,97,116,105,111,110,47,106,115,111,110,59,32,102,111,111,59,32,99,104,97,114,115,101,116,61,117,116,102,56>>
\* 'application/json;a=b=c'
CT_eqeq == <<97,112,112,108,105,99,97,116,105,111,110,47,106,115,111,110,59,97,61,98,61,99>>

\* 'text/{}'
CT_braces == <<116,101,120,116,47,123,125>>

\* the network 10.0.0.0/24, an address inside it and one outside
Net_10_0_0 == <<10, 0, 0, 0, 24>>
Ip_inside == <<10, 0, 0, 5>>
Ip_outside == <<10, 0, 1, 5>>

\* The options a resource is constructed with, by choice: 0 is the
\* baseline (key 'k1', secret 's', a body limit of exactly the baseline
\* body, the default timestamp window, one network, TLS required).
OptionChoices ==
    [secret : 0..2, post_body_limit : 0..1, timestamp_delta_limit : 0..1,
     require_ip : 0..2, require_tls : 0..1]

OptionFaults(c) ==
    Cardinality({f \in DOMAIN c : c[f] # 0})

\* the options dict of a choice; an option left out is a key the dict lacks
OptionsOf(c) ==
    [key |-> Key_k1]
    @@ (IF c.secret = 0 THEN [secret |-> Secret_s]
        ELSE IF c.secret = 1 THEN <<>> ELSE [secret |-> <<>>])
    @@ (IF c.post_body_limit = 0 THEN [post_body_limit |-> Len(Body_obj)] ELSE <<>>)
    @@ (IF c.timestamp_delta_limit = 0 THEN <<>> ELSE [timestamp_delta_limit |-> 0])
    @@ (IF c.require_ip = 0 THEN [require_ip |-> Net_10_0_0]
        ELSE IF c.require_ip = 1 THEN <<>> ELSE [require_ip |-> <<>>])
    @@ (IF c.require_tls = 0 THEN [require_tls |-> TRUE] ELSE <<>>)

\* The requests, by choice: one number per place of the request, 0 the
\* baseline.  The places, in order, and how many alternatives each has:
\*   1 method  2 Origin  3 Access-Control-Request-Headers  4 Content-Type
\*   5 Content-Length  6 body  7 key  8 timestamp  9 seq  10 nonce
\*   11 signature  12 client IP  13 TLS  14 what _process does
\*   15 the query string (as composed of places 7-11, or none at all)
AltCount == <<3, 2, 1, 8, 5, 8, 3, 7, 3, 2, 4, 1, 1, 3, 1>>

\* every choice that differs from the baseline in at most budget places
RECURSIVE RequestChoices(_, _)
RequestChoices(i, budget) ==
    IF i > Len(AltCount) THEN {<<>>}
    ELSE {<<0>> \o r : r \in RequestChoices(i + 1, budget)}
         \cup (IF budget = 0 THEN {}
               ELSE {<<a>> \o r : a \in 1..AltCount[i],
                                  r \in RequestChoices(i + 1, budget - 1)})

MethodOf(c) == <<"POST", "PUT", "GET", "OPTIONS">>[c[1] + 1]

\* 'http://a'; 'null'
OriginOf(c) == << <<104,116,116,112,58,47,47,97>>, None, <<110,117,108,108>> >>[c[2] + 1]

\* 'x-a'
RequestHeadersOf(c) == << None, <<120,45,97>> >>[c[3] + 1]

ContentTypeOf(c) ==
    << <<CT_json>>, <<>>, <<CT_json_utf8>>, <<CT_text>>, <<CT_latin1>>, <<CT_dup>>,
       <<CT_token>>, <<CT_eqeq>>, <<CT_braces>> >>[c[4] + 1]

BodyOf(c) ==
    << Body_obj, Body_empty_obj, Body_array, Body_scalar, Body_notjson, Body_big,
       Body_badutf8, Body_trunc, Body_utf8 >>[c[6] + 1]

\* Content-Length: the body's length; none; the length written ' 0<n>'; one
\* more than the length; '8b'; two headers
ContentLengthOf(c) ==
    LET n == Len(BodyOf(c))
    IN  << <<Itoa(n)>>, <<>>, <<(<<32, 48>> \o Itoa(n))>>, <<Itoa(n + 1)>>,
           <<(Itoa(n) \o <<98>>)>>, <<Itoa(n), Itoa(n)>> >>[c[5] + 1]

KeyOf(c) == << Key_k1, None, Key_k2, Key_braces >>[c[7] + 1]

TimestampOf(c) ==
    << TS_now, None, TS_past_at, TS_future_at, TS_past_over, TS_future_over,
       TS_bad, TS_braces >>[c[8] + 1]

\* '1', 'x', '{'
SeqOf(c) == << <<49>>, None, <<120>>, <<123>> >>[c[9] + 1]

\* '2', 'y'
NonceOf(c) == << <<50>>, None, <<121>> >>[c[10] + 1]

\* a field the request lacks contributes nothing to what its sender signed
Sent(x) == IF x = None THEN <<>> ELSE x

\* the signature a sender holding the given secret computes for the request
SenderSignature(secret, c, first, second) ==
    UrlsafeB64Encode(HmacDigest(
        [key |-> secret,
         msg |-> Sent(KeyOf(c)) \o Sent(TimestampOf(c)) \o first \o second
                 \o BodyOf(c)]))

\* signature: the right one; none; the right one with its first character
\* changed; one made with another secret; one made with seq and nonce in
\* the other order
SignatureOf(c) ==
    LET good == SenderSignature(Secret_s, c, Sent(SeqOf(c)), Sent(NonceOf(c)))
    IN  CASE c[11] = 0 -> good
          [] c[11] = 1 -> None
          [] c[11] = 2 -> <<(IF good[1] = 65 THEN 66 ELSE 65)>> \o Tail(good)
          [] c[11] = 3 -> SenderSignature(Secret_t, c, Sent(SeqOf(c)), Sent(NonceOf(c)))
          [] OTHER -> SenderSignature(Secret_s, c, Sent(NonceOf(c)), Sent(SeqOf(c)))

\* request.args, first values only: a name the request lacks is no key
ArgsOf(c) ==
    IF c[15] = 1 THEN <<>> ELSE
    (IF KeyOf(c) = None THEN <<>> ELSE [key |-> KeyOf(c)])
    @@ (IF TimestampOf(c) = None THEN <<>> ELSE [timestamp |-> TimestampOf(c)])
    @@ (IF SeqOf(c) = None THEN <<>> ELSE [seq |-> SeqOf(c)])
    @@ (IF NonceOf(c) = None THEN <<>> ELSE [nonce |-> NonceOf(c)])
    @@ (IF SignatureOf(c) = None THEN <<>> ELSE [signature |-> SignatureOf(c)])

\* the request of a choice, as the resource sees it through twisted's
\* Request: method, headers, args, content, getClientIP(), isSecure();
\* process is what _process does when it is called for this request
RequestOf(c) ==
    [method |-> MethodOf(c),
     origin |-> OriginOf(c),
     access_control_request_headers |-> RequestHeadersOf(c),
     content_type |-> ContentTypeOf(c),
     content_length |-> ContentLengthOf(c),
     content |-> BodyOf(c),
     args |-> ArgsOf(c),
     client_ip |-> << Ip_inside, Ip_outside >>[c[12] + 1],
     is_secure |-> c[13] = 0,
     process |-> << "bytes", "raise", "deferred", "fired" >>[c[14] + 1]]

\* ------------------------------------------------------------------------
\* State
\* ------------------------------------------------------------------------

VARIABLES
    options,    \* the options dict the resource was constructed with
    config,     \* self._key, _secret, _post_body_limit, _timestamp_delta_limit,
                \* _require_ip, _require_tls
    clock,      \* how many five-minute steps utcnow() is past its first instant
    pc,         \* where the handling of the request stands
    request,    \* the request being handled
    local,      \* the locals of _render_request
    validator,  \* the state of the module-level _validator
    response,   \* the response: code, headers, body chunks written, finish() calls
    result,     \* what render returned
    deferred,   \* the Deferred _process returned: "none", "pending", "fired", "failed"
    hist,       \* history: the checks evaluated in order, the check that
                \* denied, its log category, _process calls, whether the
                \* request is an allowed one sent again
    in_flight   \* how many earlier requests still wait for their Deferred

vars == <<options, config, clock, pc, request, local, validator, response,
          result, deferred, hist, in_flight>>

\* __init__ (lines 65-94)
Construct(opts) ==
    [key |-> IF "key" \in DOMAIN opts THEN opts.key ELSE None,
     secret |-> IF "secret" \in DOMAIN opts THEN opts.secret ELSE None,
     post_body_limit |->
        IF "post_body_limit" \in DOMAIN opts THEN opts.post_body_limit ELSE 0,
     timestamp_delta_limit |->
        IF "timestamp_delta_limit" \in DOMAIN opts THEN opts.timestamp_delta_limit
        ELSE 300,
     require_ip |-> IF "require_ip" \in DOMAIN opts THEN opts.require_ip ELSE None,
     require_tls |-> IF "require_tls" \in DOMAIN opts THEN opts.require_tls ELSE FALSE]

\* a variant that takes every resource for one with a secret
TruthyAlways(x) == TRUE

\* a variant that asks whether there is a value, not whether it is empty
IsNotNone(x) == x # None

\* the truth value of a byte string or None
Truthy(x) == x # None /\ Len(x) > 0

\* a variant of reset that leaves the validator in the state the request
\* before left it in
ValidatorKept == validator

\* _validator.reset()
ValidatorReset == "ACCEPT"

\* a variant of validate that goes on from the state the shared validator
\* is in, whatever state it is told to start from
ValidatorValidateOn(state, ba) == Utf8Run(validator, ba)

\* _validator.validate(ba) from the validator's current state: the state it
\* is left in; item 0 of the result is "no byte was rejected"
ValidatorValidate(state, ba) == Utf8Run(state, ba)

\* datetime.datetime.utcnow()
UtcNow(ticks) ==
    [ok |-> TRUE, year |-> 2011, month |-> 10, day |-> 14, hour |-> 17,
     minute |-> 5 * ticks, second |-> 0, microsecond |-> 0]

NoRequest ==
    [method |-> "", origin |-> None, access_control_request_headers |-> None,
     content_type |-> <<>>, content_length |-> <<>>, content |-> <<>>,
     args |-> <<>>, client_ip |-> <<0, 0, 0, 0>>, is_secure |-> FALSE,
     process |-> ""]

NoLocals ==
    [body |-> None, content_type_elements |-> <<>>, encoding_parts |-> <<>>,
     content_length |-> 0, key_str |-> None, timestamp_str |-> None,
     seq_str |-> None, nonce_str |-> None, signature_str |-> None,
     signature_recomputed |-> None, text |-> None,
     event |-> [t |-> "none", v |-> <<>>],
     validator_found |-> "none"]

\* a fresh twisted Request: code 200, no header set, nothing written
NoResponse == [code |-> 200, headers |-> <<>>, written |-> <<>>, finished |-> 0]

NoResult == [kind |-> "none", data |-> ""]

NoHist ==
    [checks |-> <<>>, denied |-> "", log_category |-> "", process_calls |-> 0,
     replayed |-> FALSE]

Init ==
    /\ options \in {OptionsOf(c) : c \in {x \in OptionChoices : OptionFaults(x) <= MaxFaults}}
    /\ config = Construct(options)
    /\ clock = 0
    /\ pc = "idle"
    /\ request = NoRequest
    /\ local = NoLocals
    /\ validator = Utf8Validator
    /\ response = NoResponse
    /\ result = NoResult
    /\ deferred = "none"
    /\ hist = NoHist
    /\ in_flight = 0

\* how many places of the options differ from the baseline
FaultsOf(opts) ==
    CHOOSE n \in 0..5 :
        \E c \in OptionChoices : OptionsOf(c) = opts /\ OptionFaults(c) = n

\* ------------------------------------------------------------------------
\* The response object and the helpers of the resource
\* ------------------------------------------------------------------------

\* request.setHeader(name, value)
SetHeader(resp, name, value) ==
    [resp EXCEPT !.headers = (name :> value) @@ @]

\* _set_common_headers (lines 138-151)
SetCommonHeaders(resp, req) ==
    LET origin == IF req.origin = None \/ req.origin = <<110,117,108,108>>
                  THEN <<42>> ELSE req.origin
        r1 == SetHeader(resp, "access-control-allow-origin", origin)
        \* b'true'
        r2 == SetHeader(r1, "access-control-allow-credentials", <<116,114,117,101>>)
        \* b'no-store,no-cache,must-revalidate,max-age=0'
        r3 == SetHeader(r2, "cache-control",
                  <<110,111,45,115,116,111,114,101,44,110,111,45,99,97,99,104,101,
                    44,109,117,115,116,45,114,101,118,97,108,105,100,97,116,101,
                    44,109,97,120,45,97,103,101,61,48>>)
    IN  IF req.access_control_request_headers # None
        THEN SetHeader(r3, "access-control-allow-headers",
                       req.access_control_request_headers)
        ELSE r3

\* the check named stage has been evaluated
Checked(stage) == [hist EXCEPT !.checks = Append(@, stage)]

\* 'log_category': the one keyword every call of _deny_request can fill in
B_log_category == <<108,111,103,95,99,97,116,101,103,111,114,121>>

\* reason.format(**kwargs) (line 107) raises: the reason is formatted a
\* second time here, so a brace that the first formatting put into it from
\* the request counts again.  '{{' and '}}' are escapes; a lone brace is a
\* ValueError; a field is filled only by the keyword log_category (the
\* model sends no field with a conversion or a format specification).
\* shown is the text of the request the reason quotes, from position i on
RECURSIVE FormatRaises(_, _)
FormatRaises(shown, i) ==
    IF i > Len(shown) THEN FALSE
    ELSE IF shown[i] = 123
    THEN IF i < Len(shown) /\ shown[i + 1] = 123 THEN FormatRaises(shown, i + 2)
         ELSE LET j == IndexFrom(shown, 125, i + 1)
              IN  IF j = 0 THEN TRUE
                  ELSE IF SubSeq(shown, i + 1, j - 1) # B_log_category THEN TRUE
                  ELSE FormatRaises(shown, j + 1)
    ELSE IF shown[i] = 125
    THEN IF i < Len(shown) /\ shown[i + 1] = 125 THEN FormatRaises(shown, i + 2)
         ELSE TRUE
    ELSE FormatRaises(shown, i + 1)

\* _deny_request (lines 96-107) with a reason that formats: the response
\* code is set and render returns the reason
Denied(stage, code, log_category, reason) ==
    /\ response' = [response EXCEPT !.code = code]
    /\ result' = [kind |-> "bytes", data |-> reason]
    /\ hist' = [Checked(stage) EXCEPT !.denied = stage, !.log_category = log_category]
    /\ pc' = "returned"

\* an exception raised in the check named stage reaches render's
\* except Exception (lines 174-176)
Unhandled(stage) == Denied(stage, 500, "AR500", "Unhandled server error.")

\* return self._deny_request(request, code, reason, log_category=...), the
\* reason quoting the text shown (<<>> when it quotes nothing of the
\* request): line 107 raises after line 106 has set the code, and render's
\* handler answers 500
DenyRequest(stage, code, log_category, reason, shown) ==
    IF FormatRaises(shown, 1) THEN Unhandled(stage)
    ELSE Denied(stage, code, log_category, reason)

\* the check named stage passed: on to the next
Proceed(stage, next) ==
    /\ response' = response
    /\ result' = result
    /\ hist' = Checked(stage)
    /\ pc' = next

\* ------------------------------------------------------------------------
\* render and _render_request, one action per check, in source order
\* ------------------------------------------------------------------------

\* a request arrives: twisted builds its Request and calls render
Receive ==
    /\ pc = "idle"
    /\ \E c \in RequestChoices(1, MaxFaults - FaultsOf(options)) :
            request' = RequestOf(c)
    /\ pc' = "render"
    /\ local' = NoLocals
    /\ response' = NoResponse
    /\ result' = NoResult
    /\ deferred' = "none"
    /\ hist' = NoHist
    /\ UNCHANGED <<options, in_flight, config, clock, validator>>

\* time passes between requests
Tick ==
    /\ pc = "idle"
    /\ clock < MaxTicks
    /\ clock' = clock + 1
    /\ UNCHANGED <<options, in_flight, config, pc, request, local, validator,
                   response, result, deferred, hist>>

\* b'POST,PUT,OPTIONS'
B_POST_PUT_OPTIONS == <<80,79,83,84,44,80,85,84,44,79,80,84,73,79,78,83>>

\* a variant that leaves out the Allow header
SetAllowMethodsOnly(resp) ==
    SetHeader(resp, "access-control-allow-methods", B_POST_PUT_OPTIONS)

\* lines 165-168: the two headers of the answer to OPTIONS
SetOptionsHeaders(resp) ==
    SetHeader(SetHeader(resp, "allow", B_POST_PUT_OPTIONS),
              "access-control-allow-methods", B_POST_PUT_OPTIONS)

\* render (lines 157-173): the method, the common headers, OPTIONS
Render ==
    /\ pc = "render"
    /\ IF request.method \notin {"POST", "PUT", "OPTIONS"}
       THEN DenyRequest("method", 405, "AR405", "not allowed", <<>>)
       ELSE IF request.method = "OPTIONS"
       THEN /\ response' =
                  [SetOptionsHeaders(SetCommonHeaders(response, request))
                   EXCEPT !.code = 200]
            /\ result' = [kind |-> "bytes", data |-> ""]
            /\ hist' = Checked("method")
            /\ pc' = "returned"
       ELSE /\ response' = SetCommonHeaders(response, request)
            /\ result' = result
            /\ hist' = Checked("method")
            /\ pc' = "read_body"
    /\ UNCHANGED <<options, in_flight, config, clock, request, local, validator, deferred>>

\* lines 184-199: the body, the arguments, the Content-Type elements
ReadBody ==
    /\ pc = "read_body"
    /\ local' = [local EXCEPT
                    !.body = request.content,
                    !.content_type_elements = ContentTypeElements(request.content_type)]
    /\ pc' = "content_type"
    /\ UNCHANGED <<options, in_flight, config, clock, request, validator, response, result,
                   deferred, hist>>

\* lines 201-211
CheckContentType ==
    /\ pc = "content_type"
    /\ IF BadContentType(local.content_type_elements)
       THEN DenyRequest("content_type", 400, "AR452", "bad content type",
                        local.content_type_elements[1])
       ELSE Proceed("content_type", "encoding_parts")
    /\ UNCHANGED <<options, in_flight, config, clock, request, local, validator, deferred>>

\* lines 213-234
CheckEncodingParts ==
    /\ pc = "encoding_parts"
    /\ LET parsed == EncodingParts(local.content_type_elements)
       IN  IF ~parsed.ok
           THEN /\ DenyRequest("encoding_parts", 400, "AR450",
                               "mangled Content-Type header", <<>>)
                /\ local' = local
           ELSE /\ Proceed("encoding_parts", "charset")
                /\ local' = [local EXCEPT !.encoding_parts = parsed.parts]
    /\ UNCHANGED <<options, in_flight, config, clock, request, validator, deferred>>

\* lines 236-244
CheckCharset ==
    /\ pc = "charset"
    /\ IF BadCharset(CharsetEncoding(local.encoding_parts))
       THEN DenyRequest("charset", 400, "AR450", "not an accepted charset encoding", <<>>)
       ELSE Proceed("charset", "content_length")
    /\ UNCHANGED <<options, in_flight, config, clock, request, local, validator, deferred>>

\* lines 246-265
CheckContentLength ==
    /\ pc = "content_length"
    /\ LET body_length == Len(local.body)
           content_length == ContentLength(request.content_length, body_length)
       IN  IF content_length.kind = "error"
           THEN Unhandled("content_length") /\ local' = local
           ELSE IF content_length.kind = "multiple"
           THEN /\ DenyRequest("content_length", 400, "AR400",
                               "Multiple Content-Length headers are not allowed", <<>>)
                /\ local' = local
           ELSE IF LengthMismatch(body_length, content_length.value)
           THEN /\ DenyRequest("content_length", 400, "AR400",
                               "body length is different to Content-Length", <<>>)
                /\ local' = [local EXCEPT !.content_length = content_length.value]
           ELSE /\ Proceed("content_length", "body_limit")
                /\ local' = [local EXCEPT !.content_length = content_length.value]
    /\ UNCHANGED <<options, in_flight, config, clock, request, validator, deferred>>

\* lines 267-271
CheckBodyLimit ==
    /\ pc = "body_limit"
    /\ IF BodyLimitExceeded(config.post_body_limit, local.content_length)
       THEN DenyRequest("body_limit", 413, "AR413", "body length exceeds maximum", <<>>)
       ELSE Proceed("body_limit", "key")
    /\ UNCHANGED <<options, in_flight, config, clock, request, local, validator, deferred>>

\* a variant that notes the missing field and carries on to the key check
MissingFieldIgnored(stage) == Proceed(stage, "verify_key")

\* signed request required, but a mandatory field is missing
MissingField(stage) ==
    DenyRequest(stage, 400, "AR461", "mandatory field missing", <<>>)

\* lines 279-285
CheckKey ==
    /\ pc = "key"
    /\ IF "key" \in DOMAIN request.args
       THEN Proceed("key", "timestamp") /\ local' = [local EXCEPT !.key_str = request.args.key]
       ELSE IF Truthy(config.secret)
       THEN MissingField("key") /\ local' = local
       ELSE Proceed("key", "timestamp") /\ local' = local
    /\ UNCHANGED <<options, in_flight, config, clock, request, validator, deferred>>

\* lines 289-307
CheckTimestamp ==
    /\ pc = "timestamp"
    /\ IF "timestamp" \in DOMAIN request.args
       THEN LET ts == Strptime(request.args.timestamp)
            IN  /\ local' = [local EXCEPT !.timestamp_str = request.args.timestamp]
                /\ IF ~ts.ok
                   THEN DenyRequest("timestamp", 400, "AR462", "invalid timestamp",
                                    request.args.timestamp)
                   ELSE IF TimestampExpired(config.timestamp_delta_limit,
                                            AbsDelta(ts, UtcNow(clock)))
                   THEN DenyRequest("timestamp", 400, "AR462", "request expired", <<>>)
                   ELSE Proceed("timestamp", "seq")
       ELSE IF Truthy(config.secret)
       THEN MissingField("timestamp") /\ local' = local
       ELSE Proceed("timestamp", "seq") /\ local' = local
    /\ UNCHANGED <<options, in_flight, config, clock, request, validator, deferred>>

\* lines 311-324
CheckSeq ==
    /\ pc = "seq"
    /\ IF "seq" \in DOMAIN request.args
       THEN /\ local' = [local EXCEPT !.seq_str = request.args.seq]
            /\ IF ~ParseInt(request.args.seq).ok
               THEN DenyRequest("seq", 400, "AR462", "invalid sequence number",
                                request.args.seq)
               ELSE Proceed("seq", "nonce")
       ELSE IF Truthy(config.secret)
       THEN MissingField("seq") /\ local' = local
       ELSE Proceed("seq", "nonce") /\ local' = local
    /\ UNCHANGED <<options, in_flight, config, clock, request, validator, deferred>>

\* lines 328-341
CheckNonce ==
    /\ pc = "nonce"
    /\ IF "nonce" \in DOMAIN request.args
       THEN /\ local' = [local EXCEPT !.nonce_str = request.args.nonce]
            /\ IF ~ParseInt(request.args.nonce).ok
               THEN DenyRequest("nonce", 400, "AR462", "invalid nonce",
                                request.args.nonce)
               ELSE Proceed("nonce", "signature")
       ELSE IF Truthy(config.secret)
       THEN MissingField("nonce") /\ local' = local
       ELSE Proceed("nonce", "signature") /\ local' = local
    /\ UNCHANGED <<options, in_flight, config, clock, request, validator, deferred>>

\* a variant that goes from the fields straight to the IP check
FieldsThenIp == "client_ip"

\* after the five fields: if self._secret (line 355), else on to line 379
AfterFields == IF Truthy(config.secret) THEN "verify_key" ELSE "client_ip"

\* lines 345-351
CheckSignature ==
    /\ pc = "signature"
    /\ IF "signature" \in DOMAIN request.args
       THEN /\ Proceed("signature", AfterFields)
            /\ local' = [local EXCEPT !.signature_str = request.args.signature]
       ELSE IF Truthy(config.secret)
       THEN MissingField("signature") /\ local' = local
       ELSE Proceed("signature", AfterFields) /\ local' = local
    /\ UNCHANGED <<options, in_flight, config, clock, request, validator, deferred>>

\* key_str != self._key
UnknownKey(key_str, key) == key_str # key

\* lines 357-360
VerifyKey ==
    /\ pc = "verify_key"
    /\ IF UnknownKey(local.key_str, config.key)
       THEN DenyRequest("verify_key", 401, "AR460", "unknown key", local.key_str)
       ELSE Proceed("verify_key", "verify_signature")
    /\ UNCHANGED <<options, in_flight, config, clock, request, local, validator, deferred>>

\* signature_str != signature_recomputed
SignatureMismatch(signature_str, signature_recomputed) ==
    signature_str # signature_recomputed

\* lines 362-376
VerifySignature ==
    /\ pc = "verify_signature"
    /\ LET recomputed == SignatureRecomputed(config.secret, local.key_str,
                             local.timestamp_str, local.seq_str, local.nonce_str,
                             local.body)
       IN  /\ local' = [local EXCEPT !.signature_recomputed = recomputed]
           /\ IF SignatureMismatch(local.signature_str, recomputed)
              THEN DenyRequest("verify_signature", 401, "AR459",
                               "invalid request signature", <<>>)
              ELSE Proceed("verify_signature", "client_ip")
    /\ UNCHANGED <<options, in_flight, config, clock, request, validator, deferred>>

\* lines 379-392
EnforceClientIp ==
    /\ pc = "client_ip"
    /\ IF IpDenied(config.require_ip, request.client_ip)
       THEN DenyRequest("client_ip", 400, "AR400", "request denied based on IP address", <<>>)
       ELSE Proceed("client_ip", "tls")
    /\ UNCHANGED <<options, in_flight, config, clock, request, local, validator, deferred>>

\* lines 396-398
EnforceTls ==
    /\ pc = "tls"
    /\ IF TlsDenied(config.require_tls, request.is_secure)
       THEN DenyRequest("tls", 400, "AR400", "request denied because not using TLS", <<>>)
       ELSE Proceed("tls", "utf8")
    /\ UNCHANGED <<options, in_flight, config, clock, request, local, validator, deferred>>

\* lines 406-415: the shared validator is reset, then run over the body;
\* validator_found notes the state an earlier request had left it in
ValidateUtf8 ==
    /\ pc = "utf8"
    /\ validator' = ValidatorValidate(ValidatorReset, local.body)
    /\ IF ~ValidationResult0(validator')
       THEN DenyRequest("utf8", 400, "AR451", "body was invalid UTF-8", <<>>)
       ELSE Proceed("utf8", "decode")
    /\ local' = [local EXCEPT !.validator_found = validator]
    /\ UNCHANGED <<options, in_flight, config, clock, request, deferred>>

\* line 417: event = body.decode('utf8'); UnicodeDecodeError is not caught here
DecodeBody ==
    /\ pc = "decode"
    /\ IF ~Utf8Decodable(local.body)
       THEN Unhandled("decode") /\ local' = local
       ELSE /\ Proceed("decode", "json")
            /\ local' = [local EXCEPT !.text = Utf8Decode(local.body)]
    /\ UNCHANGED <<options, in_flight, config, clock, request, validator, deferred>>

\* lines 419-432: json.loads, then the event must be a dict
ParseJson ==
    /\ pc = "json"
    /\ LET loaded == JsonLoads(local.text)
       IN  IF ~loaded.ok
           THEN /\ DenyRequest("json", 400, "AR453", "body must be valid JSON", <<>>)
                /\ local' = local
           ELSE /\ local' = [local EXCEPT !.event = loaded.val]
                /\ IF ~IsDict(loaded.val)
                   THEN DenyRequest("json", 400, "AR454", "body must be a JSON dict", <<>>)
                   ELSE Proceed("json", "dispatch")
    /\ UNCHANGED <<options, in_flight, config, clock, request, validator, deferred>>

\* request.finish()
Finish(resp) == [resp EXCEPT !.finished = @ + 1]

\* a variant that finishes the request as soon as the Deferred is in hand
FinishAtOnce(resp, d) == Finish(resp)

\* line 441: d.addCallback(lambda _: request.finish()): the callback runs at
\* once on a Deferred that has fired, later or never on a pending one
AddCallback(resp, d) == IF d = "fired" THEN Finish(resp) ELSE resp

\* lines 434-443: d = self._process(request, event).  _process returns
\* bytes, raises, or returns a Deferred that has fired already or will later
Dispatch ==
    /\ pc = "dispatch"
    /\ LET called == [hist EXCEPT !.process_calls = @ + 1, !.checks = Append(@, "process")]
       IN  CASE request.process = "bytes" ->
                  /\ result' = [kind |-> "bytes", data |-> "process"]
                  /\ response' = response
                  /\ hist' = called
                  /\ deferred' = deferred
                  /\ pc' = "returned"
             [] request.process = "raise" ->
                  /\ result' = [kind |-> "bytes", data |-> "Unhandled server error."]
                  /\ response' = [response EXCEPT !.code = 500]
                  /\ hist' = [called EXCEPT !.denied = "process", !.log_category = "AR500"]
                  /\ deferred' = deferred
                  /\ pc' = "returned"
             [] OTHER ->
                  /\ deferred' = IF request.process = "fired" THEN "fired" ELSE "pending"
                  /\ response' = AddCallback(response, deferred')
                  /\ result' = [kind |-> "NOT_DONE_YET", data |-> ""]
                  /\ hist' = called
                  /\ pc' = IF deferred' = "fired" THEN "done" ELSE "pending"
    /\ UNCHANGED <<options, in_flight, config, clock, request, local, validator>>

\* render returned bytes: twisted writes them and finishes the request
ReturnBytes ==
    /\ pc = "returned"
    /\ response' = [response EXCEPT !.written = Append(@, result.data),
                                    !.finished = @ + 1]
    /\ pc' = "done"
    /\ UNCHANGED <<options, in_flight, config, clock, request, local, validator, result,
                   deferred, hist>>

\* the pending Deferred fires with a result: the callback of line 441 runs
DeferredCallback ==
    /\ pc = "pending"
    /\ deferred = "pending"
    /\ deferred' = "fired"
    /\ response' = AddCallback(response, deferred')
    /\ pc' = "done"
    /\ UNCHANGED <<options, in_flight, config, clock, request, local, validator, result, hist>>

\* the pending Deferred fires with a failure: line 441 added a callback and
\* no errback, so nothing of this resource runs
DeferredErrback ==
    /\ pc = "pending"
    /\ deferred = "pending"
    /\ deferred' = "failed"
    /\ UNCHANGED <<options, in_flight, config, clock, pc, request, local, validator, response,
                   result, hist>>

\* the response is finished: the connection is done with this request
Close ==
    /\ pc = "done"
    /\ pc' = "idle"
    /\ request' = NoRequest
    /\ local' = NoLocals
    /\ response' = NoResponse
    /\ result' = NoResult
    /\ deferred' = "none"
    /\ hist' = NoHist
    /\ UNCHANGED <<options, in_flight, config, clock, validator>>

\* the client sends an allowed request again, unchanged, at once or five
\* minutes later: twisted builds a new Request and calls render
Replay ==
    /\ pc = "done"
    /\ hist.process_calls = 1
    /\ ~hist.replayed
    /\ \E later \in {0, 1} :
          /\ clock + later <= MaxTicks
          /\ clock' = clock + later
    /\ pc' = "render"
    /\ request' = request
    /\ local' = NoLocals
    /\ response' = NoResponse
    /\ result' = NoResult
    /\ deferred' = "none"
    /\ hist' = [NoHist EXCEPT !.replayed = TRUE]
    /\ UNCHANGED <<options, in_flight, config, validator>>

\* render has returned NOT_DONE_YET (line 443) and the Deferred is pending:
\* the reactor goes on to other requests while this one waits
Background ==
    /\ pc = "pending"
    /\ deferred = "pending"
    /\ in_flight < MaxInFlight
    /\ in_flight' = in_flight + 1
    /\ pc' = "idle"
    /\ request' = NoRequest
    /\ local' = NoLocals
    /\ response' = NoResponse
    /\ result' = NoResult
    /\ deferred' = "none"
    /\ hist' = NoHist
    /\ UNCHANGED <<options, config, clock, validator>>

\* the Deferred of a waiting request resolves: its callback (line 441)
\* touches that request only
BackgroundResolves ==
    /\ in_flight > 0
    /\ in_flight' = in_flight - 1
    /\ UNCHANGED <<options, config, clock, pc, request, local, validator,
                   response, result, deferred, hist>>

Next ==
    \/ Replay \/ Background \/ BackgroundResolves
    \/ Receive \/ Tick \/ Render \/ ReadBody
    \/ CheckContentType \/ CheckEncodingParts \/ CheckCharset
    \/ CheckContentLength \/ CheckBodyLimit
    \/ CheckKey \/ CheckTimestamp \/ CheckSeq \/ CheckNonce \/ CheckSignature
    \/ VerifyKey \/ VerifySignature
    \/ EnforceClientIp \/ EnforceTls
    \/ ValidateUtf8 \/ DecodeBody \/ ParseJson
    \/ Dispatch \/ ReturnBytes \/ DeferredCallback \/ DeferredErrback \/ Close

Spec == Init /\ [][Next]_vars

\* ------------------------------------------------------------------------
\* What a request and a configuration are, stated on the inputs alone
\* ------------------------------------------------------------------------

\* render has answered: bytes returned, or NOT_DONE_YET
Answered == pc \in {"returned", "pending", "done"}

\* the check named stage has been evaluated for the request
Evaluated(stage) == \E i \in 1..Len(hist.checks) : hist.checks[i] = stage

IsPostOrPut == request.method \in {"POST", "PUT"}

SignedMode == config.secret # None /\ config.secret # <<>>

Has(field) == field \in DOMAIN request.args

HasAllFive == \A f \in {"key", "timestamp", "seq", "nonce", "signature"} : Has(f)

\* Content-Type absent or application/json, parameters well-formed, charset
\* utf-8 or utf8
ContentTypeOk ==
    LET e == ContentTypeElements(request.content_type)
        p == EncodingParts(e)
    IN  /\ Len(request.content_type) = 0 \/ e[1] = B_application_json
        /\ p.ok
        /\ ~HasPart(p.parts, B_charset) \/ GetPart(p.parts, B_charset, <<>>) \in {B_utf_8, B_utf8}

\* no Content-Length header, or one whose number is the body's length
ContentLengthOk ==
    \/ Len(request.content_length) = 0
    \/ /\ Len(request.content_length) = 1
       /\ ParseInt(request.content_length[1]).ok
       /\ ParseInt(request.content_length[1]).value = Len(request.content)

BodyWithinLimit ==
    config.post_body_limit = 0 \/ Len(request.content) <= config.post_body_limit

FramingOk == ContentTypeOk /\ ContentLengthOk /\ BodyWithinLimit

\* the timestamp's distance from the current time, when it parses
TimestampDelta == AbsDelta(Strptime(request.args.timestamp), UtcNow(clock))

TimestampWithinLimit ==
    \/ config.timestamp_delta_limit = 0
    \/ TimestampDelta.seconds < config.timestamp_delta_limit
    \/ /\ TimestampDelta.seconds = config.timestamp_delta_limit
       /\ TimestampDelta.microseconds = 0

\* every field the request carries is well-formed, and in signed mode it
\* carries all five
FieldsOk ==
    /\ SignedMode => HasAllFive
    /\ Has("timestamp") =>
          Strptime(request.args.timestamp).ok /\ TimestampWithinLimit
    /\ Has("seq") => ParseInt(request.args.seq).ok
    /\ Has("nonce") => ParseInt(request.args.nonce).ok

\* base64url(HMAC-SHA256(secret, key || timestamp || seq || nonce || body))
ExpectedSignature ==
    UrlsafeB64Encode(HmacDigest(
        [key |-> config.secret,
         msg |-> request.args.key \o request.args.timestamp \o request.args.seq
                 \o request.args.nonce \o request.content]))

KeyMatches == request.args.key = config.key

SignatureMatches == request.args.signature = ExpectedSignature

VerificationOk == SignedMode => KeyMatches /\ SignatureMatches

IpOk ==
    \/ config.require_ip = None
    \/ config.require_ip = <<>>
    \/ \E j \in 1..(Len(config.require_ip) \div 5) :
          LET net == SubSeq(config.require_ip, 5 * j - 4, 5 * j)
          IN  \A i \in 1..4 :
                 request.client_ip[i] \div Pow2(8 - PrefixBits(net[5], i))
                     = net[i] \div Pow2(8 - PrefixBits(net[5], i))

TlsOk == config.require_tls => request.is_secure

Utf8Ok == Utf8Run("ACCEPT", request.content) = "ACCEPT"

JsonOk ==
    LET j == JsonLoads(Utf8Decode(request.content))
    IN  j.ok /\ j.val.t = "dict"

\* the request passes every check of the pipeline
PassesEveryCheck ==
    /\ FramingOk /\ FieldsOk /\ VerificationOk /\ IpOk /\ TlsOk /\ Utf8Ok
    /\ JsonOk

\* ------------------------------------------------------------------------
\* Claims
\* ------------------------------------------------------------------------

\* C1: _process has been invoked for a request only if its method is POST or
\* PUT and it passes every check (content type and charset, Content-Length,
\* body limit, the fields and, in signed mode, key and signature, IP, TLS,
\* UTF-8, JSON object); a request that one of the checks denied is never
\* handed to _process; _process is invoked at most once per request.
C1_ProcessOnlyAfterAllChecks ==
    /\ hist.process_calls <= 1
    /\ hist.process_calls = 1 => IsPostOrPut /\ PassesEveryCheck
    /\ (hist.denied # "" /\ hist.denied # "process") => hist.process_calls = 0

\* C1 witness: a signed POST or PUT request, with an IP allow-list and TLS
\* required, was handed to _process and answered
C1_Witness ==
    /\ hist.process_calls = 1 /\ pc = "done" /\ response.code = 200
    /\ IsPostOrPut /\ SignedMode /\ config.require_ip = Net_10_0_0 /\ config.require_tls

\* C2: in signed mode a POST/PUT request that passes framing and carries
\* all five fields well-formed gets past the signature stage exactly when
\* its key is the configured key and its signature is
\* base64url(HMAC-SHA256(secret, key||timestamp||seq||nonce||body)) over the
\* raw values received; otherwise it is answered 401.
C2_SignatureDecides ==
    (Answered /\ IsPostOrPut /\ SignedMode /\ FramingOk /\ FieldsOk) =>
        /\ Evaluated("client_ip") <=> (KeyMatches /\ SignatureMatches)
        /\ ~KeyMatches => response.code = 401 /\ hist.denied = "verify_key"
        /\ (KeyMatches /\ ~SignatureMatches) =>
              response.code = 401 /\ hist.denied = "verify_signature"

\* the five fields in the order the code looks at them
FieldOrder == <<"key", "timestamp", "seq", "nonce", "signature">>

\* the field is one the code accepts: a timestamp in the format and inside
\* the window, seq and nonce integers
WellFormed(field) ==
    CASE field = "timestamp" ->
            Strptime(request.args.timestamp).ok /\ TimestampWithinLimit
      [] field \in {"seq", "nonce"} -> ParseInt(request.args[field]).ok
      [] OTHER -> TRUE

\* the request lacks a field, and every field before it is there and
\* well-formed: it reaches the check of the field it lacks
ReachesMissingField ==
    /\ IsPostOrPut /\ FramingOk
    /\ \E k \in 1..Len(FieldOrder) :
          /\ ~Has(FieldOrder[k])
          /\ \A j \in 1..(k - 1) : Has(FieldOrder[j]) /\ WellFormed(FieldOrder[j])

\* C3: with a secret configured, a POST/PUT request that lacks any one of
\* key, timestamp, seq, nonce, signature is answered 400 by the check of
\* that field, and no signature has been computed for it.
C3_MissingFieldDenied ==
    (Answered /\ SignedMode /\ ReachesMissingField) =>
        /\ response.code = 400 /\ hist.log_category = "AR461"
        /\ local.signature_recomputed = None
        /\ ~Evaluated("verify_key") /\ ~Evaluated("verify_signature")

\* C3 witness: a signed-mode request that lacks only its signature was
\* answered 400
C3_Witness ==
    /\ Answered /\ SignedMode /\ ReachesMissingField
    /\ Has("key") /\ Has("timestamp") /\ Has("seq") /\ Has("nonce")
    /\ ~Has("signature")
    /\ response.code = 400 /\ hist.denied = "signature"

\* the request reaches the timestamp check and its timestamp parses
ReachesTimestamp ==
    /\ IsPostOrPut /\ FramingOk
    /\ SignedMode => Has("key")
    /\ Has("timestamp") /\ Strptime(request.args.timestamp).ok

\* C4: a POST/PUT request whose timestamp parses and differs from the
\* current UTC time by more than a nonzero timestamp_delta_limit, before or
\* after, is answered 400 whatever its signature; a difference equal to the
\* limit is not denied, and a limit of 0 switches the check off.
C4_TimestampWindow ==
    (Answered /\ ReachesTimestamp) =>
        /\ ~TimestampWithinLimit =>
              response.code = 400 /\ hist.denied = "timestamp"
        /\ TimestampWithinLimit => hist.denied # "timestamp"

\* C4 witness: a request with a valid signature and a timestamp more than
\* the limit in the future was answered 400
C4_Witness ==
    /\ Answered /\ ReachesTimestamp /\ SignedMode /\ HasAllFive
    /\ KeyMatches /\ SignatureMatches
    /\ Strptime(request.args.timestamp).minute = 5
    /\ TimestampDelta.microseconds = 1
    /\ response.code = 400 /\ hist.denied = "timestamp"

\* the only Content-Length header names the body's length
HeaderEqualsBodyLength ==
    /\ ParseInt(request.content_length[1]).ok
    /\ ParseInt(request.content_length[1]).value = Len(request.content)

\* C5: a POST/PUT request with one Content-Length header whose value is not
\* the body's length is answered 400, for every header value and whatever
\* else the request contains; one with several Content-Length headers is
\* answered 400.
C5_ContentLengthMismatch400 ==
    (Answered /\ IsPostOrPut) =>
        /\ (Len(request.content_length) = 1 /\ ~HeaderEqualsBodyLength) =>
              response.code = 400
        /\ Len(request.content_length) > 1 => response.code = 400

\* the request reaches the body limit check
ReachesBodyLimit == IsPostOrPut /\ ContentTypeOk /\ ContentLengthOk

\* none of the five fields has been looked at
NoFieldExamined ==
    /\ \A f \in {"key", "timestamp", "seq", "nonce", "signature",
                 "verify_key", "verify_signature"} : ~Evaluated(f)
    /\ local.key_str = None /\ local.timestamp_str = None
    /\ local.seq_str = None /\ local.nonce_str = None
    /\ local.signature_str = None /\ local.signature_recomputed = None

\* C6: a POST/PUT request whose body is longer than a nonzero
\* post_body_limit is answered 413 before any signature field is examined;
\* a body of exactly the limit is not denied for its size, and a limit of 0
\* never denies for size.
C6_BodyLimit ==
    (Answered /\ ReachesBodyLimit) =>
        /\ ~BodyWithinLimit =>
              /\ response.code = 413 /\ hist.denied = "body_limit"
              /\ NoFieldExamined
        /\ BodyWithinLimit => response.code # 413 /\ hist.denied # "body_limit"

\* C6 witness: an otherwise valid signed request with a body one byte over
\* the limit was answered 413
C6_Witness ==
    /\ Answered /\ ReachesBodyLimit /\ HasAllFive
    /\ config.post_body_limit # 0
    /\ Len(request.content) = config.post_body_limit + 1
    /\ response.code = 413

\* the stage a check belongs to, in pipeline order: 1 framing, 2 fields,
\* 3 key and signature, 4 IP, 5 TLS, 6 UTF-8, 7 JSON; then the forwarder
StageRank(check) ==
    CASE check = "method" -> 0
      [] check \in {"content_type", "encoding_parts", "charset",
                    "content_length", "body_limit"} -> 1
      [] check \in {"key", "timestamp", "seq", "nonce", "signature"} -> 2
      [] check \in {"verify_key", "verify_signature"} -> 3
      [] check = "client_ip" -> 4
      [] check = "tls" -> 5
      [] check \in {"utf8", "decode"} -> 6
      [] check = "json" -> 7
      [] OTHER -> 8

\* the earliest stage the request violates; 8 when it violates none
FirstViolated ==
    IF ~FramingOk THEN 1
    ELSE IF ~FieldsOk THEN 2
    ELSE IF ~VerificationOk THEN 3
    ELSE IF ~IpOk THEN 4
    ELSE IF ~TlsOk THEN 5
    ELSE IF ~Utf8Ok THEN 6
    ELSE IF ~JsonOk THEN 7
    ELSE 8

\* C7: a POST/PUT request is denied by the earliest stage it violates, in
\* the order framing, fields, key and signature, IP, TLS, UTF-8, JSON; the
\* checks run in that order and no check of a later stage is evaluated once
\* an earlier one has denied.
C7_EarliestStageDenies ==
    (pc # "idle" /\ IsPostOrPut) =>
        LET n == Len(hist.checks)
            first == FirstViolated
        IN  /\ \A i \in 2..n :
                  StageRank(hist.checks[i - 1]) <= StageRank(hist.checks[i])
            /\ n > 0 => StageRank(hist.checks[n]) <= first
            /\ hist.denied # "" =>
                  /\ StageRank(hist.denied) = first
                  /\ hist.checks[n] = hist.denied
            /\ (Answered /\ first <= 7) => hist.denied # ""

\* C7 witness: a request with a wrong signature from an address outside the
\* allowed networks was answered 401 by the signature stage
C7_Witness ==
    /\ Answered /\ IsPostOrPut /\ SignedMode /\ FramingOk /\ FieldsOk
    /\ ~VerificationOk /\ ~IpOk
    /\ response.code = 401 /\ StageRank(hist.denied) = 3

\* an error has been raised while the request was handled: int() on the
\* Content-Length header, body.decode, _process raising, or the Deferred
\* that _process returned failing
ErrorRaised ==
    \/ /\ Evaluated("content_length")
       /\ Len(request.content_length) = 1
       /\ ~ParseInt(request.content_length[1]).ok
    \/ Evaluated("decode") /\ ~Utf8Ok
    \/ hist.process_calls = 1 /\ request.process = "raise"
    \/ deferred = "failed"

\* C8: any error raised while a request is handled, the forwarder failing
\* synchronously or asynchronously included, becomes a 500 denial.
C8_ErrorsBecome500 ==
    (pc # "idle" /\ ErrorRaised) => response.code = 500

\* C9: every request ends DENIED or COMPLETED with its response finished;
\* a request whose forwarder answers asynchronously is finished once the
\* Deferred has resolved, with a result or with an error.
C9_ResolvedMeansFinished ==
    /\ deferred \in {"fired", "failed"} => response.finished = 1
    /\ pc = "done" => response.finished = 1

\* C10: when _process answers with a Deferred, render returns NOT_DONE_YET,
\* the response is not finished and nothing is written to it while the
\* Deferred is pending, and it is finished at most once, only after the
\* Deferred has resolved.
C10_AsyncCompletion ==
    /\ response.finished <= 1
    /\ deferred # "none" =>
          /\ result.kind = "NOT_DONE_YET"
          /\ response.written = <<>>
          /\ deferred = "pending" => response.finished = 0
          /\ response.finished = 1 => deferred = "fired"

\* C10 witness: a request whose Deferred was pending when render returned
\* has been finished by the callback
C10_Witness ==
    /\ request.process = "deferred" /\ deferred = "fired"
    /\ result.kind = "NOT_DONE_YET" /\ response.finished = 1
    /\ response.code = 200

\* b'*', b'null', b'true', b'no-store,no-cache,must-revalidate,max-age=0'
B_star == <<42>>

B_null == <<110,117,108,108>>

B_true == <<116,114,117,101>>

B_no_store ==
    <<110,111,45,115,116,111,114,101,44,110,111,45,99,97,99,104,101,44,109,117,
      115,116,45,114,101,118,97,108,105,100,97,116,101,44,109,97,120,45,97,103,
      101,61,48>>

\* the response has the header with the value
HasHeader(name, value) ==
    name \in DOMAIN response.headers /\ response.headers[name] = value

\* the three common headers, the origin echoed or * for none or 'null'
CommonHeadersSet ==
    /\ HasHeader("access-control-allow-origin",
                 IF request.origin = None \/ request.origin = B_null
                 THEN B_star ELSE request.origin)
    /\ HasHeader("access-control-allow-credentials", B_true)
    /\ HasHeader("cache-control", B_no_store)

\* C11: every response render produces (the OPTIONS 200, every 4xx
\* denial, the 405 for a method that is not allowed included, the 500,
\* every allowed POST/PUT) carries Access-Control-Allow-Origin (the
\* request's Origin, or * when there is none or it is 'null'),
\* Access-Control-Allow-Credentials: true and the Cache-Control header.
C11_CommonHeadersOnEveryResponse == Answered => CommonHeadersSet

\* C12: an OPTIONS request is always answered 200 with an empty body and
\* the headers Allow and Access-Control-Allow-Methods: POST,PUT,OPTIONS,
\* whatever the configuration and whatever the request contains; its body
\* is not read, no check of the pipeline runs and _process is not invoked.
C12_OptionsAlways200 ==
    (Answered /\ request.method = "OPTIONS") =>
        /\ response.code = 200
        /\ result = [kind |-> "bytes", data |-> ""]
        /\ HasHeader("allow", B_POST_PUT_OPTIONS)
        /\ HasHeader("access-control-allow-methods", B_POST_PUT_OPTIONS)
        /\ local = NoLocals
        /\ hist.checks = <<"method">> /\ hist.denied = ""
        /\ hist.process_calls = 0 /\ deferred = "none"
        /\ pc = "done" => response.written = <<"">> /\ response.finished = 1

\* C12 witness: an OPTIONS request that as a POST would fail framing, sent
\* to a resource that requires signatures, was answered 200 and finished
C12_Witness ==
    /\ pc = "done" /\ request.method = "OPTIONS" /\ SignedMode
    /\ ~FramingOk
    /\ response.code = 200 /\ response.written = <<"">>

\* the request passes the framing and the signature stages
PassesFramingAndSignature ==
    IsPostOrPut /\ FramingOk /\ FieldsOk /\ VerificationOk

\* C13: for a request that passed the framing and signature stages: with a
\* non-empty IP allow-list it is denied with 400 exactly when the client
\* IP lies in none of the listed networks, and an empty or absent list
\* never denies; then, with require_tls set, a request not using TLS is
\* denied with 400.  So a signed request that is allowed from an address
\* inside a listed network is denied with 400 from one outside them all.
C13_IpThenTls ==
    (Answered /\ PassesFramingAndSignature) =>
        /\ hist.denied = "client_ip" <=> ~IpOk
        /\ ~IpOk => response.code = 400 /\ ~Evaluated("tls")
        /\ hist.denied = "tls" <=> (IpOk /\ ~TlsOk)
        /\ (IpOk /\ ~TlsOk) => response.code = 400
        /\ (SignedMode /\ ~IpOk /\ TlsOk /\ Utf8Ok /\ JsonOk) =>
              hist.process_calls = 0

\* C13 witness: a signed request that passes every other check, sent from
\* 10.0.1.5 with 10.0.0.0/24 the only listed network, was answered 400
C13_Witness ==
    /\ Answered /\ PassesFramingAndSignature /\ SignedMode
    /\ TlsOk /\ Utf8Ok /\ JsonOk
    /\ config.require_ip = Net_10_0_0 /\ request.client_ip = Ip_outside
    /\ response.code = 400 /\ hist.denied = "client_ip"

\* the request passes every stage before the payload is decoded
PassesBeforeDecoding == PassesFramingAndSignature /\ IpOk /\ TlsOk

\* C14: for a request that passed all earlier stages: a body that is not
\* valid UTF-8 is answered 400 and JSON parsing is never attempted on it; a
\* valid UTF-8 body that is not JSON is answered 400; a body that parses to
\* a JSON array or scalar is answered 400; the value handed to _process is
\* always a JSON object and exactly the parse of the received body.
C14_PayloadDecoding ==
    (Answered /\ PassesBeforeDecoding) =>
        /\ ~Utf8Ok => response.code = 400 /\ ~Evaluated("json")
        /\ (Utf8Ok /\ ~JsonOk) => response.code = 400 /\ hist.denied = "json"
        /\ hist.process_calls = 1 =>
              /\ Utf8Ok
              /\ local.event = JsonLoads(Utf8Decode(request.content)).val
              /\ local.event.t = "dict"

\* the request carries none of the five fields
HasNoField ==
    \A f \in {"key", "timestamp", "seq", "nonce", "signature"} : ~Has(f)

\* the checks that look at the five fields
FieldChecks ==
    {"key", "timestamp", "seq", "nonce", "signature", "verify_key",
     "verify_signature"}

\* C15: with no secret configured, a POST/PUT request that carries none of
\* key, timestamp, seq, nonce, signature is never denied because of those
\* fields; if it passes framing, network policy and payload decoding it
\* reaches _process with its decoded object.
C15_UnsignedWithoutFields ==
    (Answered /\ IsPostOrPut /\ "secret" \notin DOMAIN options /\ HasNoField) =>
        /\ hist.denied \notin FieldChecks
        /\ local.signature_recomputed = None
        /\ (FramingOk /\ IpOk /\ TlsOk /\ Utf8Ok /\ JsonOk) =>
              /\ hist.process_calls = 1
              /\ local.event = JsonLoads(Utf8Decode(request.content)).val

\* C15 witness: with no secret configured, a POST with Content-Type
\* application/json, a JSON object for a body and no query parameters was
\* handed to _process and answered 200
C15_Witness ==
    /\ pc = "done" /\ IsPostOrPut /\ "secret" \notin DOMAIN options
    /\ request.args = <<>>
    /\ request.content_type = <<CT_json>> /\ request.content = Body_obj
    /\ hist.process_calls = 1 /\ response.code = 200
    /\ local.event.t = "dict"

\* C16: handling a request changes no state that outlives it: the
\* configuration stays what the constructor made of the options, and whatever
\* requests came before (answered, still waiting for their Deferred, or left
\* the shared validator in any state) a POST/PUT request is dispatched
\* exactly if it passes every check, which the request, the configuration
\* and the current time decide; a signed request that was allowed and is
\* sent again unchanged is allowed again while its timestamp is within the
\* window, for no seq or nonce is remembered.
C16_NoStateOutlivesRequest ==
    /\ config = Construct(options)
    /\ (Answered /\ IsPostOrPut) =>
          (hist.process_calls = 1 <=> PassesEveryCheck)
    /\ (Answered /\ hist.replayed /\ SignedMode /\ TimestampWithinLimit) =>
          hist.process_calls = 1

\* C16 witness: an allowed signed request, sent again with the same seq and
\* nonce, has been dispatched again
C16_Witness ==
    /\ Answered /\ hist.replayed /\ SignedMode /\ HasAllFive
    /\ request.args.seq = <<49>> /\ request.args.nonce = <<50>>
    /\ TimestampWithinLimit
    /\ hist.process_calls = 1

ContentTypeTokens == ContentTypeElements(request.content_type)

\* the request has been denied 400 by the named check, before the
\* Content-Length and body limit checks
Denied400Early(stage) ==
    /\ response.code = 400 /\ hist.denied = stage
    /\ ~Evaluated("content_length") /\ ~Evaluated("body_limit")

\* C18: for a POST/PUT request, an absent Content-Type passes; a present one
\* whose first token is not application/json is answered 400; after an
\* accepted first token, a token without '=' is skipped, a repeated parameter
\* name is answered 400, a charset other than utf-8 or utf8 is answered 400
\* and an absent charset counts as utf-8; each of these denials comes before
\* the Content-Length and body limit checks.
C18_ContentTypeHandling ==
    (Answered /\ IsPostOrPut) =>
        LET e == ContentTypeTokens
            p == EncodingParts(e)
        IN  /\ Len(e) = 0 =>
                  /\ hist.denied \notin {"content_type", "encoding_parts", "charset"}
                  /\ Evaluated("content_length")
            /\ (Len(e) > 0 /\ e[1] # B_application_json) =>
                  Denied400Early("content_type")
            /\ (Len(e) > 0 /\ e[1] = B_application_json) =>
                  /\ ~p.ok => Denied400Early("encoding_parts")
                  /\ (p.ok /\ HasPart(p.parts, B_charset)
                        /\ GetPart(p.parts, B_charset, <<>>) \notin {B_utf_8, B_utf8}) =>
                        Denied400Early("charset")
                  /\ (p.ok /\ (~HasPart(p.parts, B_charset)
                        \/ GetPart(p.parts, B_charset, <<>>) \in {B_utf_8, B_utf8})) =>
                        Evaluated("content_length")

\* what decides a request on a resource without a secret: framing, the
\* format of the fields it carries, network policy and payload
PassesUnsigned ==
    /\ FramingOk
    /\ Has("timestamp") =>
          Strptime(request.args.timestamp).ok /\ TimestampWithinLimit
    /\ Has("seq") => ParseInt(request.args.seq).ok
    /\ Has("nonce") => ParseInt(request.args.nonce).ok
    /\ IpOk /\ TlsOk /\ Utf8Ok /\ JsonOk

\* no field has been demanded, no key compared and no signature computed
NothingAuthenticated ==
    /\ hist.log_category \notin {"AR461", "AR460", "AR459"}
    /\ ~Evaluated("verify_key") /\ ~Evaluated("verify_signature")
    /\ hist.denied \notin {"verify_key", "verify_signature"}
    /\ local.signature_recomputed = None

\* C19: a resource configured with the empty string for a secret behaves as
\* one configured with no secret: for every POST/PUT request none of the
\* five fields is demanded, no key is compared, no signature is computed,
\* and the request is dispatched exactly if it passes the checks of a
\* resource without a secret.
C19_EmptySecretIsNoSecret ==
    (Answered /\ IsPostOrPut /\ config.secret \in {None, <<>>}) =>
        /\ NothingAuthenticated
        /\ hist.process_calls = 1 <=> PassesUnsigned

\* C19 witness: on a resource whose secret is the empty string a request
\* without a key, and so with a signature no secret made, was dispatched
C19_Witness ==
    /\ Answered /\ IsPostOrPut /\ config.secret = <<>>
    /\ "secret" \in DOMAIN options
    /\ ~Has("key") /\ Has("signature")
    /\ NothingAuthenticated /\ hist.process_calls = 1

\* the request has been denied 400 by the named field check
FieldDenied400(stage) == response.code = 400 /\ hist.denied = stage

\* a supplied timestamp is well-formed and within the limit
TimestampFine ==
    Has("timestamp") =>
        Strptime(request.args.timestamp).ok /\ TimestampWithinLimit

\* C20: on a resource without a secret, a POST/PUT request that passes
\* framing and supplies a timestamp that does not parse or lies outside the
\* delta limit is answered 400, as is one that supplies a seq or a nonce
\* that is not an integer; the key and the signature it supplies have no
\* part in the decision, which is to dispatch exactly if framing, the
\* format of the supplied fields, network policy and payload are in order.
C20_UnsignedFormatChecks ==
    (Answered /\ IsPostOrPut /\ config.secret = None /\ FramingOk) =>
        /\ ~TimestampFine => FieldDenied400("timestamp")
        /\ (TimestampFine /\ Has("seq") /\ ~ParseInt(request.args.seq).ok) =>
              FieldDenied400("seq")
        /\ (TimestampFine /\ (Has("seq") => ParseInt(request.args.seq).ok)
              /\ Has("nonce") /\ ~ParseInt(request.args.nonce).ok) =>
              FieldDenied400("nonce")
        /\ NothingAuthenticated
        /\ hist.process_calls = 1 <=> PassesUnsigned

====
